---- MODULE Spec2Model ----
(***************************************************************************)
(* Model of scripts/release.py of ChromaCat: the banner rendering helpers  *)
(* (generate_gradient, strip_ansi, apply_gradient, center_text) and the    *)
(* release procedure main().                                               *)
(*                                                                         *)
(* Strings are sequences of code points (Python str).  Python floats are   *)
(* IEEE-754 binary64 values, modelled bit-exactly as fixed-point numbers   *)
(* that are rounded to 53 significant bits after every operation.          *)
(***************************************************************************)
EXTENDS Integers, Sequences, FiniteSets, TLC

\* ------------------------------------------------------------------------
\* Bounds of the model
\* ------------------------------------------------------------------------
MaxColors == 3
MaxSteps == 10
MaxStripLen == 6
MaxTextLen == 3
MaxPaintColors == 2
MaxPaintSteps == 3
MaxLineLen == 2
MaxFirstLine == 1
MaxWidth == 4
MaxVersionLen == 6

\* ------------------------------------------------------------------------
\* Python helpers
\* ------------------------------------------------------------------------
Max(a, b) == IF a >= b THEN a ELSE b

\* Python's a // b on ints: floor division, defined for b # 0.
floordiv(a, b) == IF b < 0 THEN (0 - a) \div (0 - b) ELSE a \div b

\* ' ' * n : a negative or zero count gives the empty string.
Spaces(n) == [i \in 1..Max(n, 0) |-> 32]

RECURSIVE Digits(_)
\* str(n) of a non-negative int, as code points.
Digits(n) == IF n < 10 THEN <<48 + n>> ELSE Digits(n \div 10) \o <<48 + (n % 10)>>

\* f"{n}" of an int.
IntStr(n) == IF n < 0 THEN <<45>> \o Digits(0 - n) ELSE Digits(n)

\* ------------------------------------------------------------------------
\* IEEE-754 binary64 arithmetic on the non-negative values that occur in
\* generate_gradient (all below 2^LimbBits).  A value is a fixed-point
\* number of NumLimbs limbs of LimbBits bits, least significant limb first,
\* the last limb being the integer part.
\* ------------------------------------------------------------------------
LimbBits == 15
Base == 2^LimbBits
NumLimbs == 5
MantBits == 53

FromInt(a) == <<0, 0, 0, 0, a>>

\* exact x + y (x - y when y is negated limb-wise: \div and % are floored)
AddLimbs(x, y) ==
    LET s1 == x[1] + y[1]
        s2 == x[2] + y[2] + (s1 \div Base)
        s3 == x[3] + y[3] + (s2 \div Base)
        s4 == x[4] + y[4] + (s3 \div Base)
        s5 == x[5] + y[5] + (s4 \div Base)
    IN <<s1 % Base, s2 % Base, s3 % Base, s4 % Base, s5 % Base>>

\* exact x - y, x >= y
SubLimbs(x, y) == AddLimbs(x, <<0 - y[1], 0 - y[2], 0 - y[3], 0 - y[4], 0 - y[5]>>)

\* exact x * a for an int 0 <= a <= 255
MulSmall(x, a) ==
    LET s1 == x[1] * a
        s2 == x[2] * a + (s1 \div Base)
        s3 == x[3] * a + (s2 \div Base)
        s4 == x[4] * a + (s3 \div Base)
        s5 == x[5] * a + (s4 \div Base)
    IN <<s1 % Base, s2 % Base, s3 % Base, s4 % Base, s5 % Base>>

\* bit i of x, bit 0 being the least significant
Bit(x, i) == (x[(i \div LimbBits) + 1] \div 2^(i % LimbBits)) % 2

\* number of significant bits of x, x # 0
BitLen(x) ==
    LET k == CHOOSE c \in 1..NumLimbs : x[c] # 0 /\ \A d \in (c + 1)..NumLimbs : x[d] = 0
        b == CHOOSE c \in 1..LimbBits : 2^(c - 1) <= x[k] /\ x[k] < 2^c
    IN LimbBits * (k - 1) + b

\* limb k of x with the bits below bit `drop` cleared
TruncLimb(x, k, drop) ==
    LET lo == LimbBits * (k - 1)
    IN IF drop >= lo + LimbBits THEN 0
       ELSE IF drop <= lo THEN x[k]
       ELSE (x[k] \div 2^(drop - lo)) * 2^(drop - lo)

\* limb k of 2^drop
UlpLimb(k, drop) == IF drop \div LimbBits = k - 1 THEN 2^(drop % LimbBits) ELSE 0

\* round to nearest, ties to even, at 53 significant bits; sticky tells
\* that the exact value has non-zero bits below the least significant limb
Round53(x, sticky) ==
    IF x = <<0, 0, 0, 0, 0>> THEN x
    ELSE LET drop == BitLen(x) - MantBits
         IN IF drop <= 0 THEN x
            ELSE LET rest == sticky \/ \E i \in 0..(drop - 2) : Bit(x, i) = 1
                     up == Bit(x, drop - 1) = 1 /\ (rest \/ Bit(x, drop) = 1)
                     trunc == <<TruncLimb(x, 1, drop), TruncLimb(x, 2, drop), TruncLimb(x, 3, drop),
                                TruncLimb(x, 4, drop), TruncLimb(x, 5, drop)>>
                     ulp == <<UlpLimb(1, drop), UlpLimb(2, drop), UlpLimb(3, drop),
                              UlpLimb(4, drop), UlpLimb(5, drop)>>
                 IN IF up THEN AddLimbs(trunc, ulp) ELSE trunc

\* j / n on ints (true division), 0 <= j < n
TrueDiv(j, n) ==
    LET r1 == (j * Base) % n
        r2 == (r1 * Base) % n
        r3 == (r2 * Base) % n
        r4 == (r3 * Base) % n
    IN Round53(<<(r3 * Base) \div n, (r2 * Base) \div n, (r1 * Base) \div n, (j * Base) \div n, 0>>,
               r4 # 0)

\* int(x): truncation
TruncInt(x) == x[NumLimbs]

\* mutant: the interpolated channel is rounded to nearest, not truncated
Interpolate_Rounded(start, end, j, n) == ((start * (n - j) + end * j) * 2 + n) \div (2 * n)

\* int(start * (1 - t) + end * t) with t = j / steps_per_segment
Interpolate(start, end, j, n) ==
    LET t == TrueDiv(j, n)
        u == Round53(SubLimbs(FromInt(1), t), FALSE)
        p == Round53(MulSmall(u, start), FALSE)
        q == Round53(MulSmall(t, end), FALSE)
    IN TruncInt(Round53(AddLimbs(p, q), FALSE))

\* ------------------------------------------------------------------------
\* Code points used by the program text
\* ------------------------------------------------------------------------
ESC == 27
SPACE == 32

\* f"\033[38;2;{r};{g};{b}m"
ColorCode(r, g, b) ==
    <<ESC, 91, 51, 56, 59, 50, 59>> \o IntStr(r) \o <<59>> \o IntStr(g) \o <<59>> \o IntStr(b) \o <<109>>

\* ------------------------------------------------------------------------
\* generate_gradient
\* ------------------------------------------------------------------------
RECURSIVE SegmentLoop(_, _, _, _)
\* for j in range(steps_per_segment): ... gradient.append(...), from j on
SegmentLoop(start_color, end_color, steps_per_segment, j) ==
    IF j >= steps_per_segment THEN <<>>
    ELSE <<ColorCode(Interpolate(start_color[1], end_color[1], j, steps_per_segment),
                     Interpolate(start_color[2], end_color[2], j, steps_per_segment),
                     Interpolate(start_color[3], end_color[3], j, steps_per_segment))>>
         \o SegmentLoop(start_color, end_color, steps_per_segment, j + 1)

RECURSIVE GradientLoop(_, _, _, _)
\* for i in range(segments): ..., from i on (i is 0-based as in the code)
GradientLoop(colors, segments, steps_per_segment, i) ==
    IF i >= segments THEN <<>>
    ELSE SegmentLoop(colors[i + 1], colors[i + 2], steps_per_segment, 0)
         \o GradientLoop(colors, segments, steps_per_segment, i + 1)

\* mutant: the lower bound of one step per segment is forgotten
StepsPerSegment_NoMax(steps, segments) == floordiv(steps, segments)

\* steps_per_segment = max(1, steps // segments), segments # 0
StepsPerSegment(steps, segments) == Max(1, floordiv(steps, segments))

\* The call ends either by returning the list or by the exception that
\* `steps // segments` raises when segments is 0.
generate_gradient(colors, steps) ==
    LET segments == Len(colors) - 1
    IN IF segments = 0
       THEN [outcome |-> "ZeroDivisionError", value |-> <<>>]
       ELSE [outcome |-> "return",
             value |-> GradientLoop(colors, segments, StepsPerSegment(steps, segments), 0)]

\* ------------------------------------------------------------------------
\* strip_ansi: re.compile(r"\x1B[@-_][0-?]*[ -/]*[@-~]").sub("", text)
\* ------------------------------------------------------------------------
IsFe(c) == c >= 64 /\ c <= 95
IsParam(c) == c >= 48 /\ c <= 63
IsIntermediate(c) == c >= 32 /\ c <= 47
\* mutant: the final byte class is written [@-_] instead of [@-~]
IsFinal_NoLower(c) == c >= 64 /\ c <= 95
IsFinal(c) == c >= 64 /\ c <= 126

RECURSIVE SkipParams(_, _)
\* [0-?]* from position p: the first position not holding a parameter byte
SkipParams(s, p) == IF p <= Len(s) /\ IsParam(s[p]) THEN SkipParams(s, p + 1) ELSE p

RECURSIVE SkipIntermediates(_, _)
\* [ -/]* from position p
SkipIntermediates(s, p) ==
    IF p <= Len(s) /\ IsIntermediate(s[p]) THEN SkipIntermediates(s, p + 1) ELSE p

\* Position of the last character of the match of the pattern that starts
\* at position i, or 0 when there is none.  The three classes after the
\* second character are pairwise disjoint, so giving back characters of a
\* greedy run never produces a match: the greedy attempt decides.
MatchEnd(s, i) ==
    IF s[i] = ESC /\ i + 1 <= Len(s) /\ IsFe(s[i + 1])
    THEN LET q == SkipIntermediates(s, SkipParams(s, i + 2))
         IN IF q <= Len(s) /\ IsFinal(s[q]) THEN q ELSE 0
    ELSE 0

RECURSIVE SubFrom(_, _)
\* sub("", s): leftmost non-overlapping matches are deleted, one scan
SubFrom(s, i) ==
    IF i > Len(s) THEN <<>>
    ELSE IF MatchEnd(s, i) > 0 THEN SubFrom(s, MatchEnd(s, i) + 1)
    ELSE <<s[i]>> \o SubFrom(s, i + 1)

strip_ansi(text) == SubFrom(text, 1)

\* ------------------------------------------------------------------------
\* apply_gradient
\* ------------------------------------------------------------------------
RECURSIVE JoinFrom(_, _, _, _)
\* "".join(f"{gradient[(i + line_number) % len(gradient)]}{char}" ...), from
\* the 0-based position i on
JoinFrom(text, gradient, line_number, i) ==
    IF i >= Len(text) THEN <<>>
    ELSE gradient[((i + line_number) % Len(gradient)) + 1] \o <<text[i + 1]>>
         \o JoinFrom(text, gradient, line_number, i + 1)

\* mutant: the line number is left out of the index
apply_gradient_NoLine(text, gradient, line_number) ==
    IF Len(gradient) = 0 /\ Len(text) > 0
    THEN [outcome |-> "ZeroDivisionError", value |-> <<>>]
    ELSE [outcome |-> "return", value |-> JoinFrom(text, gradient, 0, 0)]

\* `% len(gradient)` raises when the gradient is empty and there is a
\* character to color.
apply_gradient(text, gradient, line_number) ==
    IF Len(gradient) = 0 /\ Len(text) > 0
    THEN [outcome |-> "ZeroDivisionError", value |-> <<>>]
    ELSE [outcome |-> "return", value |-> JoinFrom(text, gradient, line_number, 0)]

\* ------------------------------------------------------------------------
\* wcwidth.wcswidth (library): -1 as soon as one code point is a control
\* character, else the sum of the widths 0, 1 or 2 of the code points.
\* ------------------------------------------------------------------------
IsControl(c) == (c > 0 /\ c < 32) \/ (c >= 127 /\ c < 160)
IsZeroWidth(c) == c = 0 \/ (c >= 768 /\ c <= 879) \/ (c >= 8203 /\ c <= 8207)
IsWide(c) == (c >= 4352 /\ c <= 4447) \/ (c >= 19968 /\ c <= 40959)
             \/ (c >= 44032 /\ c <= 55203) \/ (c >= 65281 /\ c <= 65376)

wcwidth(c) == IF IsControl(c) THEN 0 - 1 ELSE IF IsZeroWidth(c) THEN 0 ELSE IF IsWide(c) THEN 2 ELSE 1

RECURSIVE WidthSum(_, _)
WidthSum(s, i) == IF i > Len(s) THEN 0 ELSE wcwidth(s[i]) + WidthSum(s, i + 1)

wcswidth(s) == IF \E i \in 1..Len(s) : wcwidth(s[i]) < 0 THEN 0 - 1 ELSE WidthSum(s, 1)

\* ------------------------------------------------------------------------
\* center_text
\* ------------------------------------------------------------------------
VisibleLength(text) == wcswidth(strip_ansi(text))

\* padding = max((width - visible_length) // 2, 0)
Padding(text, width) == Max(floordiv(width - VisibleLength(text), 2), 0)

\* mutant: the right padding forgets the visible length of the text
center_text_NoVisible(text, width) ==
    Spaces(Padding(text, width)) \o text \o Spaces(width - Padding(text, width))

\* f"{' ' * padding}{text}{' ' * (width - padding - visible_length)}"
center_text(text, width) ==
    Spaces(Padding(text, width)) \o text
    \o Spaces(width - Padding(text, width) - VisibleLength(text))

\* ------------------------------------------------------------------------
\* State
\* ------------------------------------------------------------------------
VARIABLES
    pc,            \* position of the caller
    colors,        \* generate_gradient: argument colors
    steps,         \* generate_gradient: argument steps
    gradient,      \* generate_gradient: how the call ended and what it returned
    text,          \* strip_ansi / center_text: argument text
    width,         \* center_text: argument width
    centered,      \* center_text: its locals and its return value
    stripped,      \* strip_ansi(text)
    restripped,    \* strip_ansi(strip_ansi(text))
    block,         \* the lines that are painted, in order
    first_line,    \* line_number of the first line of the block
    painted,       \* apply_gradient of the lines painted so far
    measured,      \* strip_ansi of the painted lines
    new_version,   \* main: the version that was typed in
    answer,        \* main: the answer to the confirmation prompt
    cargo_toml,    \* main: the version line of Cargo.toml
    log,           \* main: the steps that completed, in order
    exit_status    \* main: exit status of the process, -1 while it runs

gradVars == <<colors, steps, gradient>>
textVars == <<text, width, centered, stripped, restripped>>
blockVars == <<block, first_line, painted, measured>>
mainVars == <<new_version, answer, cargo_toml, log, exit_status>>
vars == <<pc, gradVars, textVars, blockVars, mainVars>>

NotCalled == [outcome |-> "none", value |-> <<>>]
NotCentered == [visible_length |-> 0, padding |-> 0, value |-> <<>>]

GradIdle == colors = <<>> /\ steps = 0 /\ gradient = NotCalled
TextIdle == text = <<>> /\ width = 0 /\ centered = NotCentered /\ stripped = <<>> /\ restripped = <<>>
BlockIdle == block = <<>> /\ first_line = 0 /\ painted = <<>> /\ measured = <<>>
MainIdle == new_version = <<>> /\ answer = <<>> /\ cargo_toml = "none" /\ log = <<>>
            /\ exit_status = 0 - 1

\* all strings over an alphabet up to a length
Strings(alphabet, maxLen) == UNION {[1..n -> alphabet] : n \in 0..maxLen}

\* ------------------------------------------------------------------------
\* Calls of generate_gradient
\* ------------------------------------------------------------------------
Black == <<0, 0, 0>>
White == <<255, 255, 255>>
Indigo == <<75, 0, 130>>
Palette == {Black, White, Indigo}
ColorLists == UNION {[1..n -> Palette] : n \in 0..MaxColors}
StepCounts == 0..MaxSteps

InitGradient ==
    /\ pc = "start"
    /\ colors \in ColorLists
    /\ steps \in StepCounts
    /\ gradient = NotCalled
    /\ TextIdle /\ BlockIdle /\ MainIdle

GenerateGradient ==
    /\ pc = "start"
    /\ gradient' = generate_gradient(colors, steps)
    /\ pc' = "done"
    /\ UNCHANGED <<colors, steps, textVars, blockVars, mainVars>>

SpecGradient == InitGradient /\ [][GenerateGradient]_vars

\* ------------------------------------------------------------------------
\* Claims about generate_gradient (checked under SpecGradient)
\* ------------------------------------------------------------------------
RECURSIVE Fields(_, _, _)
\* the decimal fields of "38;2;r;g;b" separated by ';', read from position i
Fields(s, i, cur) ==
    IF i > Len(s) THEN <<cur>>
    ELSE IF s[i] = 59 THEN <<cur>> \o Fields(s, i + 1, 0)
    ELSE Fields(s, i + 1, cur * 10 + (s[i] - 48))

\* the (r, g, b) a color code written by generate_gradient stands for
Rgb(code) ==
    LET f == Fields(SubSeq(code, 3, Len(code) - 1), 1, 0) IN <<f[3], f[4], f[5]>>

Returned == pc = "done" /\ gradient.outcome = "return"

\* C1: with fewer than 2 key colors the call ends in an InvalidInputError,
\* for every step count, and returns no gradient.
C1_FewColorsInvalidInput ==
    (pc = "done" /\ Len(colors) < 2) => gradient.outcome = "InvalidInputError"


\* C5 as claimed: with at least 2 key colors the result has
\* segments * max(1, floor(steps / segments)) entries, this is >= 1, and it
\* is less than steps whenever segments does not divide steps.
C5_LengthBelowSteps ==
    (pc = "done" /\ Len(colors) >= 2) =>
        LET segments == Len(colors) - 1
            n == Len(gradient.value)
        IN /\ gradient.outcome = "return"
           /\ n = segments * (IF steps \div segments >= 1 THEN steps \div segments ELSE 1)
           /\ n >= 1
           /\ (steps % segments # 0 => n < steps)

\* C5 amended: the length is segments * max(1, floor(steps / segments)),
\* it is >= 1, it is less than steps when steps >= segments and segments
\* does not divide steps, and it is segments (which is more than steps) when
\* steps < segments.
C5_Length ==
    (pc = "done" /\ Len(colors) >= 2) =>
        LET segments == Len(colors) - 1
            n == Len(gradient.value)
        IN /\ gradient.outcome = "return"
           /\ n = segments * (IF steps \div segments >= 1 THEN steps \div segments ELSE 1)
           /\ n >= 1
           /\ ((steps >= segments /\ steps % segments # 0) => n < steps)
           /\ (steps < segments => (n = segments /\ n > steps))

C5_Witness ==
    /\ Returned /\ Len(colors) = 3 /\ steps = 5 /\ Len(gradient.value) = 4

MonotoneChannels(g) ==
    \A k \in 1..(Len(g) - 1) : \A c \in 1..3 : Rgb(g[k])[c] <= Rgb(g[k + 1])[c]

\* C6 as claimed: generate_gradient([(0,0,0),(255,255,255)], 10) yields 9
\* colors, every channel non-decreasing along the sequence.
C6_NineColors ==
    (pc = "done" /\ colors = <<Black, White>> /\ steps = 10) =>
        /\ gradient.outcome = "return"
        /\ Len(gradient.value) = 9
        /\ MonotoneChannels(gradient.value)

\* C6 amended: the call yields 10 colors, every channel non-decreasing along
\* the sequence, the first being black (0,0,0) and the last (229,229,229).
C6_TenColors ==
    (pc = "done" /\ colors = <<Black, White>> /\ steps = 10) =>
        /\ gradient.outcome = "return"
        /\ Len(gradient.value) = 10
        /\ MonotoneChannels(gradient.value)
        /\ Rgb(gradient.value[1]) = Black
        /\ Rgb(gradient.value[10]) = <<229, 229, 229>>
        /\ gradient.value[2] = ColorCode(25, 25, 25)

C6_Witness == Returned /\ colors = <<Black, White>> /\ steps = 10 /\ Len(gradient.value) = 10

\* ------------------------------------------------------------------------
\* Calls of strip_ansi on a text and on its own result
\* ------------------------------------------------------------------------
\* ESC, '[' (Fe and final byte), '1' (parameter byte), ' ' (intermediate
\* byte), 'm' (final byte only)
StripAlphabet == {ESC, 91, 49, SPACE, 109}

InitStrip ==
    /\ pc = "start"
    /\ text \in Strings(StripAlphabet, MaxStripLen)
    /\ width = 0 /\ centered = NotCentered /\ stripped = <<>> /\ restripped = <<>>
    /\ GradIdle /\ BlockIdle /\ MainIdle

StripAnsi ==
    /\ pc = "start"
    /\ stripped' = strip_ansi(text)
    /\ pc' = "stripped"
    /\ UNCHANGED <<text, width, centered, restripped, gradVars, blockVars, mainVars>>

StripAgain ==
    /\ pc = "stripped"
    /\ restripped' = strip_ansi(stripped)
    /\ pc' = "done"
    /\ UNCHANGED <<text, width, centered, stripped, gradVars, blockVars, mainVars>>

NextStrip == StripAnsi \/ StripAgain

SpecStrip == InitStrip /\ [][NextStrip]_vars

\* C2: strip_ansi is idempotent, strip_ansi(strip_ansi(s)) = strip_ansi(s)
\* for every string s.
C2_StripIdempotent == pc = "done" => restripped = stripped

\* ------------------------------------------------------------------------
\* Calls of center_text
\* ------------------------------------------------------------------------
\* 'a', a wide CJK ideograph, a combining accent, BEL (a control
\* character), ESC and '['
CenterAlphabet == {97, 20013, 769, 7, ESC, 91}

InitCenter ==
    /\ pc = "start"
    /\ text \in Strings(CenterAlphabet, MaxTextLen)
    /\ width \in (0 - MaxWidth)..MaxWidth
    /\ centered = NotCentered /\ stripped = <<>> /\ restripped = <<>>
    /\ GradIdle /\ BlockIdle /\ MainIdle

CenterText ==
    /\ pc = "start"
    /\ centered' = [visible_length |-> VisibleLength(text),
                    padding |-> Padding(text, width),
                    value |-> center_text(text, width)]
    /\ pc' = "done"
    /\ UNCHANGED <<text, width, stripped, restripped, gradVars, blockVars, mainVars>>

SpecCenter == InitCenter /\ [][CenterText]_vars

\* C3: when the visible width v of the line is at most the width w, the
\* result is floor((w - v) / 2) spaces, the line unchanged, and
\* w - leftPadding - v spaces, and its visible width is exactly w.
C3_CenterFillsWidth ==
    (pc = "done" /\ centered.visible_length <= width) =>
        LET v == centered.visible_length
            left == (width - v) \div 2
        IN /\ centered.value = Spaces(left) \o text \o Spaces(width - left - v)
           /\ wcswidth(strip_ansi(centered.value)) = width

\* the width of a stripped line when every control or unknown code point
\* counts as one column
RECURSIVE FallbackWidth(_, _)
FallbackWidth(s, i) ==
    IF i > Len(s) THEN 0
    ELSE (IF wcwidth(s[i]) < 0 THEN 1 ELSE wcwidth(s[i])) + FallbackWidth(s, i + 1)

\* C4: the width center_text computes for a line is never negative, a
\* control or width-unknown code point counting as 1.
C4_WidthNonNegative ==
    pc = "done" =>
        /\ centered.visible_length >= 0
        /\ centered.visible_length = FallbackWidth(strip_ansi(text), 1)

PaintColorLists == UNION {[1..n -> {Black, White}] : n \in 0..MaxPaintColors}
Lines == Strings({97, ESC}, MaxLineLen)

InitPaint ==
    /\ pc = "start"
    /\ colors \in PaintColorLists
    /\ steps \in 1..MaxPaintSteps
    /\ gradient = NotCalled
    /\ block \in {<<a, b>> : a \in Lines, b \in Lines}
    /\ first_line \in (0 - MaxFirstLine)..MaxFirstLine
    /\ painted = <<>> /\ measured = <<>>
    /\ TextIdle /\ MainIdle

PaintGradient ==
    /\ pc = "start"
    /\ gradient' = generate_gradient(colors, steps)
    /\ pc' = IF gradient'.outcome = "return" THEN "paint" ELSE "raised"
    /\ UNCHANGED <<colors, steps, textVars, blockVars, mainVars>>

\* for line_number, line in enumerate(block, first_line): apply_gradient(...)
PaintLine ==
    /\ pc = "paint"
    /\ Len(painted) < Len(block)
    /\ LET n == Len(painted)
           r == apply_gradient(block[n + 1], gradient.value, first_line + n)
       IN /\ painted' = Append(painted, r)
          /\ pc' = IF r.outcome # "return" THEN "raised"
                   ELSE IF n + 1 = Len(block) THEN "measure" ELSE "paint"
    /\ UNCHANGED <<block, first_line, measured, gradVars, textVars, mainVars>>

MeasurePainted ==
    /\ pc = "measure"
    /\ measured' = [l \in 1..Len(painted) |-> strip_ansi(painted[l].value)]
    /\ pc' = "done"
    /\ UNCHANGED <<block, first_line, painted, gradVars, textVars, mainVars>>

NextPaint == PaintGradient \/ PaintLine \/ MeasurePainted

SpecPaint == InitPaint /\ [][NextPaint]_vars

\* position of the first 'm' of s at or after position p
CodeEnd(s, p) == CHOOSE e \in p..Len(s) : s[e] = 109 /\ \A k \in p..(e - 1) : s[k] # 109

RECURSIVE EmittedFrom(_, _, _)
\* the color code written just before character i (0-based) of a painted
\* line, reading codes and characters alternately from position p
EmittedFrom(s, p, i) ==
    IF i = 0 THEN SubSeq(s, p, CodeEnd(s, p)) ELSE EmittedFrom(s, CodeEnd(s, p) + 2, i - 1)

Emitted(l, i) == EmittedFrom(painted[l].value, 1, i)

\* C7: two positions (i1, line1), (i2, line2) with i1 + line1 congruent to
\* i2 + line2 modulo len(gradient) get the same color code, which is
\* gradient[(i + line) mod len(gradient)].
C7_Diagonal ==
    pc = "done" =>
        \A l1 \in 1..Len(block), l2 \in 1..Len(block) :
            \A i1 \in 0..(Len(block[l1]) - 1), i2 \in 0..(Len(block[l2]) - 1) :
                LET n == Len(gradient.value)
                    d1 == i1 + first_line + l1 - 1
                    d2 == i2 + first_line + l2 - 1
                IN d1 % n = d2 % n =>
                       /\ Emitted(l1, i1) = Emitted(l2, i2)
                       /\ Emitted(l1, i1) = gradient.value[(d1 % n) + 1]

C7_Witness ==
    /\ pc = "done" /\ Len(gradient.value) = 2 /\ first_line = 1
    /\ Len(block[1]) = 2 /\ Len(block[2]) = 2
    /\ Emitted(1, 1) = Emitted(2, 0)
    /\ Emitted(1, 0) # Emitted(1, 1)
    /\ Emitted(2, 1) = Emitted(1, 0)

\* C9: for a text without the escape introducer, a non-empty gradient made
\* by generate_gradient and any line number, stripping the painted text
\* gives back the text.
C9_RoundTrip ==
    pc = "done" =>
        \A l \in 1..Len(block) :
            ((\A k \in 1..Len(block[l]) : block[l][k] # ESC) /\ Len(gradient.value) > 0)
                => measured[l] = block[l]

C9_Witness ==
    /\ pc = "done" /\ block[1] = <<97, 97>> /\ first_line = 0 - 1
    /\ Len(gradient.value) = 3
    /\ Len(painted[1].value) > 30
    /\ measured[1] = <<97, 97>>

\* ------------------------------------------------------------------------
\* is_valid_version: re.match(r"^\d+\.\d+\.\d+$", version) is not None
\* ------------------------------------------------------------------------
\* \d of a str pattern: the ASCII digits and every other Unicode decimal
\* digit (of these the Arabic-Indic digits are modelled)
IsDigit(c) == (c >= 48 /\ c <= 57) \/ (c >= 1632 /\ c <= 1641)

RECURSIVE SkipDigits(_, _)
\* \d* from position p: the first position not holding a digit
SkipDigits(s, p) == IF p <= Len(s) /\ IsDigit(s[p]) THEN SkipDigits(s, p + 1) ELSE p

\* $ at position p: the end of the string, or just before a final newline
AtEnd(s, p) == p = Len(s) + 1 \/ (p = Len(s) /\ s[p] = 10)

\* mutant: the pattern lacks the closing $
is_valid_version_NoEnd(version) ==
    LET a == SkipDigits(version, 1)
        b == SkipDigits(version, a + 1)
        c == SkipDigits(version, b + 1)
    IN /\ a > 1 /\ a <= Len(version) /\ version[a] = 46
       /\ b > a + 1 /\ b <= Len(version) /\ version[b] = 46
       /\ c > b + 1

\* a digit never matches \. and a dot never matches \d, so the greedy runs
\* decide the match
is_valid_version(version) ==
    LET a == SkipDigits(version, 1)
        b == SkipDigits(version, a + 1)
        c == SkipDigits(version, b + 1)
    IN /\ a > 1 /\ a <= Len(version) /\ version[a] = 46
       /\ b > a + 1 /\ b <= Len(version) /\ version[b] = 46
       /\ c > b + 1 /\ AtEnd(version, c)

\* str.lower() on the letters A-Z
Lower(s) == [i \in 1..Len(s) |-> IF s[i] >= 65 /\ s[i] <= 90 THEN s[i] + 32 ELSE s[i]]

\* ------------------------------------------------------------------------
\* main(): the release procedure.  What the tools, git, cargo, the file
\* system and the user answer is chosen at each step.
\* ------------------------------------------------------------------------
\* '1', '.', 'a' and the Arabic-Indic digit one
VersionAlphabet == {49, 46, 97, 1633}
\* "y", "Y", "n", "" and "yes"
Answers == {<<121>>, <<89>>, <<110>>, <<>>, <<121, 101, 115>>}

InitMain ==
    /\ pc = "start"
    /\ new_version = <<>> /\ answer = <<>> /\ log = <<>> /\ exit_status = 0 - 1
    /\ cargo_toml \in {"missing", "no_version", "old_version"}
    /\ GradIdle /\ TextIdle /\ BlockIdle

\* sys.exit(status), or an exception nobody catches (status 1)
Exit(status) == pc' = "exited" /\ exit_status' = status

Done(step, next) == pc' = next /\ log' = Append(log, step) /\ UNCHANGED exit_status

Rest == <<gradVars, textVars, blockVars>>

PrintLogo ==
    /\ pc = "start"
    /\ Done("print_logo", "tool_git")
    /\ UNCHANGED <<new_version, answer, cargo_toml, Rest>>

\* for tool in ["git", "cargo"]: check_tool_installed(tool)
CheckToolInstalled ==
    /\ pc \in {"tool_git", "tool_cargo"}
    /\ \E found \in BOOLEAN :
          IF found
          THEN IF pc = "tool_git" THEN Done("git_installed", "tool_cargo")
                                  ELSE Done("cargo_installed", "check_branch")
          ELSE Exit(1) /\ UNCHANGED log
    /\ UNCHANGED <<new_version, answer, cargo_toml, Rest>>

CheckBranch ==
    /\ pc = "check_branch"
    /\ \E current_branch \in {"main", "dev", "CalledProcessError"} :
          IF current_branch = "main"
          THEN Done("on_main", "check_uncommitted_changes")
          ELSE Exit(1) /\ UNCHANGED log
    /\ UNCHANGED <<new_version, answer, cargo_toml, Rest>>

CheckUncommittedChanges ==
    /\ pc = "check_uncommitted_changes"
    /\ \E returncode \in {0, 1} :
          IF returncode = 0
          THEN Done("clean", "get_current_version")
          ELSE Exit(1) /\ UNCHANGED log
    /\ UNCHANGED <<new_version, answer, cargo_toml, Rest>>

GetCurrentVersion ==
    /\ pc = "get_current_version"
    /\ IF cargo_toml = "old_version"
       THEN Done("current_version", "input_version")
       ELSE Exit(1) /\ UNCHANGED log
    /\ UNCHANGED <<new_version, answer, cargo_toml, Rest>>

\* new_version = input(...); if not is_valid_version(new_version): exit
InputVersion ==
    /\ pc = "input_version"
    /\ \E v \in Strings(VersionAlphabet, MaxVersionLen) :
          /\ new_version' = v
          /\ IF is_valid_version(v)
             THEN Done("version_valid", "update_version")
             ELSE Exit(1) /\ UNCHANGED log
    /\ UNCHANGED <<answer, cargo_toml, Rest>>

UpdateVersion ==
    /\ pc = "update_version"
    /\ \E written \in BOOLEAN :
          IF written
          THEN cargo_toml' = "new_version" /\ Done("update_version", "run_checks")
          ELSE Exit(1) /\ UNCHANGED <<log, cargo_toml>>
    /\ UNCHANGED <<new_version, answer, Rest>>

\* subprocess.run(..., check=True) raises when cargo fails
RunChecks ==
    /\ pc = "run_checks"
    /\ \E cargo_check \in BOOLEAN, cargo_test \in BOOLEAN :
          IF cargo_check /\ cargo_test
          THEN Done("run_checks", "show_changes")
          ELSE Exit(1) /\ UNCHANGED log
    /\ UNCHANGED <<new_version, answer, cargo_toml, Rest>>

\* if not show_changes(): exit, show_changes being input(...).lower() == "y"
ShowChanges ==
    /\ pc = "show_changes"
    /\ \E typed \in Answers :
          /\ answer' = typed
          /\ IF Lower(typed) = <<121>>
             THEN Done("confirmed", "commit_and_push")
             ELSE Exit(1) /\ UNCHANGED log
    /\ UNCHANGED <<new_version, cargo_toml, Rest>>

\* the five git commands; the first that fails ends the run with status 1,
\* and after the last main() returns
CommitAndPush ==
    /\ pc = "commit_and_push"
    /\ log' = Append(log, "commit_and_push")
    /\ \E failed \in 0..5 : Exit(IF failed = 0 THEN 0 ELSE 1)
    /\ UNCHANGED <<new_version, answer, cargo_toml, Rest>>

NextMain ==
    \/ PrintLogo
    \/ CheckToolInstalled
    \/ CheckBranch
    \/ CheckUncommittedChanges
    \/ GetCurrentVersion
    \/ InputVersion
    \/ UpdateVersion
    \/ RunChecks
    \/ ShowChanges
    \/ CommitAndPush

SpecMain == InitMain /\ [][NextMain]_vars

\* digits.digits.digits: three non-empty runs of digits separated by dots
DottedDigits(s) ==
    \E i \in 2..Len(s), j \in 4..Len(s) :
        /\ i + 1 < j /\ j < Len(s)
        /\ s[i] = 46 /\ s[j] = 46
        /\ \A k \in (1..Len(s)) \ {i, j} : IsDigit(s[k])

StepsBeforeCommit ==
    <<"print_logo", "git_installed", "cargo_installed", "on_main", "clean", "current_version",
      "version_valid", "update_version", "run_checks", "confirmed">>

Committing == \E k \in 1..Len(log) : log[k] = "commit_and_push"

\* C10 as claimed: commit_and_push runs only after the tools were found, the
\* branch and the uncommitted-changes checks passed, the version had the
\* digits.digits.digits format, update_version rewrote Cargo.toml,
\* run_checks completed and the user answered 'y', in this order; a run that
\* ends before commit_and_push ends with exit status 1.
C10_CommitOnlyAfterY ==
    /\ Committing =>
          /\ log = Append(StepsBeforeCommit, "commit_and_push")
          /\ DottedDigits(new_version)
          /\ cargo_toml = "new_version"
          /\ answer = <<121>>
    /\ (pc = "exited" /\ ~Committing) => exit_status = 1

\* C10 amended: as claimed, the confirmation being an answer whose lower
\* case is 'y', that is 'y' or 'Y'; any other answer ends the run with exit
\* status 1 before commit_and_push.
C10_CommitOnlyAfterConfirm ==
    /\ Committing =>
          /\ log = Append(StepsBeforeCommit, "commit_and_push")
          /\ DottedDigits(new_version)
          /\ cargo_toml = "new_version"
          /\ answer \in {<<121>>, <<89>>}
    /\ (pc = "exited" /\ ~Committing) => exit_status = 1
    /\ (pc = "exited" /\ Len(log) = Len(StepsBeforeCommit) - 1 /\ log[Len(log)] = "run_checks")
          => answer \notin {<<121>>, <<89>>}

C10_Witness ==
    /\ pc = "exited" /\ exit_status = 0 /\ Committing /\ answer = <<89>>
    /\ new_version = <<49, 46, 49, 46, 49>>

====
